---- MODULE Spec2Model ----
(***************************************************************************)
(* Model of suite/testcommon.py: the output canonicalizers (fixOutput,     *)
(* fixSet, remove_low_confidence).  A Python str is a sequence of          *)
(* one-character strings; a Python list is a sequence.                     *)
(***************************************************************************)
EXTENDS Integers, Sequences, FiniteSets, TLC

VARIABLES outputList, foResult, foResult2, foPc,
          setString, fsResult, fsResult2, fsPc,
          type_string, rlResult, rlResult2, rlPc,
          cmString, cmStripFirst, cmFixFirst, cmPc,
          srString, srResult, srResult2, srPc,
          members, mtResult, mtResult2, mtInvoked, mtPc,
          files, zipContent, fxBefore, fxLog,
          tmMethod, tmFiles, tmZipContent, tmLog, tmPc, tmExit, tmRound,
          vrMethod, vrObs, vrEngineRaises, vrOutcome,
          stMethod, stSettings, stBefore, stSaved, stPc, stIdx, stExit,
          enMethod, enStart, enBase, enKept, enEngine, enDb, enSeen, enPc, enResult,
          cbPc, cbFlag, cbRegistered, cbViews, cbFiles, cbZipContent, cbExit,
          evAll, evLeft, evResults, evReturned,
          tpMethod, tpPc, tpName, tpTemp, tpExit

foVars == <<outputList, foResult, foResult2, foPc>>
fsVars == <<setString, fsResult, fsResult2, fsPc>>
rlVars == <<type_string, rlResult, rlResult2, rlPc>>
cmVars == <<cmString, cmStripFirst, cmFixFirst, cmPc>>
srVars == <<srString, srResult, srResult2, srPc>>
mtVars == <<members, mtResult, mtResult2, mtInvoked, mtPc>>
fxVars == <<files, zipContent, fxBefore, fxLog>>
tmVars == <<tmMethod, tmFiles, tmZipContent, tmLog, tmPc, tmExit, tmRound>>
vrVars == <<vrMethod, vrObs, vrEngineRaises, vrOutcome>>
stVars == <<stMethod, stSettings, stBefore, stSaved, stPc, stIdx, stExit>>
enVars == <<enMethod, enStart, enBase, enKept, enEngine, enDb, enSeen, enPc, enResult>>
cbVars == <<cbPc, cbFlag, cbRegistered, cbViews, cbFiles, cbZipContent, cbExit>>
evVars == <<evAll, evLeft, evResults, evReturned>>
tpVars == <<tpMethod, tpPc, tpName, tpTemp, tpExit>>
vars == <<foVars, fsVars, rlVars, cmVars, srVars, mtVars, fxVars, tmVars, vrVars, stVars, enVars, cbVars, evVars, tpVars>>

\* what the steps of one function leave alone: the variables of the others
foRest == <<fsVars, rlVars, cmVars, srVars, mtVars, fxVars, tmVars, vrVars, stVars, enVars, cbVars, evVars, tpVars>>
fsRest == <<foVars, rlVars, cmVars, srVars, mtVars, fxVars, tmVars, vrVars, stVars, enVars, cbVars, evVars, tpVars>>
rlRest == <<foVars, fsVars, cmVars, srVars, mtVars, fxVars, tmVars, vrVars, stVars, enVars, cbVars, evVars, tpVars>>
cmRest == <<foVars, fsVars, rlVars, srVars, mtVars, fxVars, tmVars, vrVars, stVars, enVars, cbVars, evVars, tpVars>>
srRest == <<foVars, fsVars, rlVars, cmVars, mtVars, fxVars, tmVars, vrVars, stVars, enVars, cbVars, evVars, tpVars>>
mtRest == <<foVars, fsVars, rlVars, cmVars, srVars, fxVars, tmVars, vrVars, stVars, enVars, cbVars, evVars, tpVars>>
fxRest == <<foVars, fsVars, rlVars, cmVars, srVars, mtVars, tmVars, vrVars, stVars, enVars, cbVars, evVars, tpVars>>
tmRest == <<foVars, fsVars, rlVars, cmVars, srVars, mtVars, fxVars, vrVars, stVars, enVars, cbVars, evVars, tpVars>>
vrRest == <<foVars, fsVars, rlVars, cmVars, srVars, mtVars, fxVars, tmVars, stVars, enVars, cbVars, evVars, tpVars>>
stRest == <<foVars, fsVars, rlVars, cmVars, srVars, mtVars, fxVars, tmVars, vrVars, enVars, cbVars, evVars, tpVars>>
enRest == <<foVars, fsVars, rlVars, cmVars, srVars, mtVars, fxVars, tmVars, vrVars, stVars, cbVars, evVars, tpVars>>
cbRest == <<foVars, fsVars, rlVars, cmVars, srVars, mtVars, fxVars, tmVars, vrVars, stVars, enVars, evVars, tpVars>>
evRest == <<foVars, fsVars, rlVars, cmVars, srVars, mtVars, fxVars, tmVars, vrVars, stVars, enVars, cbVars, tpVars>>
tpRest == <<foVars, fsVars, rlVars, cmVars, srVars, mtVars, fxVars, tmVars, vrVars, stVars, enVars, cbVars, evVars>>

\* ------------------------------------------------------------------ bounds
\* longest enumerated string handed to fixOutput, in characters
MaxLen == 5
\* longest enumerated mixed list handed to fixOutput
MaxElems == 2
\* longest enumerated string handed to fixSet, in pieces (FsChunks)
MaxChunks == 5
\* longest enumerated string handed to remove_low_confidence, in pieces
\* (RlChunks)
MaxPieces == 4
\* most calls of unpackage_file and delete_package in one run
MaxCalls == 3
\* function addresses of a sample run from 1 to MaxAddr
MaxAddr == 3
\* most views the engine opens besides the one of the test
MaxViews == 2
\* most notifications the engine delivers to test_events
MaxEvents == 4

\* ----------------------------------------------------------- common helpers
\* every sequence over A of length at most n
SeqsUpTo(A, n) == UNION {[1..k -> A] : k \in 0..n}

RECURSIVE Concat(_)
\* ''.join(pieces)
Concat(pieces) ==
  IF pieces = <<>> THEN <<>> ELSE Head(pieces) \o Concat(Tail(pieces))

\* s[from:] in 1-based positions
Drop(s, from) == SubSeq(s, from, Len(s))

\* ---------------------------------------------------------------- values
\* A Python value handed to fixOutput: a str, an int, None or a list.
Str(s) == [kind |-> "str", val |-> s]
IntVal == [kind |-> "int", val |-> <<>>]
NoneVal == [kind |-> "none", val |-> <<>>]
List(items) == [kind |-> "list", val |-> items]

Ok(v) == [status |-> "ok", val |-> v]
TypeError == [status |-> "TypeError", val |-> <<>>]
NoResult == [status |-> "none", val |-> <<>>]

\* ---------------------------------------------------- fixOutput's regex
\* \d and [\da-f] of the pattern
Digits == {"0", "1", "2", "3", "4", "5", "6", "7", "8", "9"}
HexDigits == Digits \cup {"a", "b", "c", "d", "e", "f"}
\* the lookbehind class [\[ ]
Boundary == {"[", " "}

RECURSIVE RunEnd(_, _, _)
\* first position at or after i whose character is not in class C (Len+1 at
\* the end of the string): where a greedy C+ started at i stops
RunEnd(s, i, C) ==
  IF i <= Len(s) /\ s[i] \in C THEN RunEnd(s, i + 1, C) ELSE i

\* [\d]+L at position i: the position after the match, 0 when it fails
MatchDecAt(s, i) ==
  LET e == RunEnd(s, i, Digits)
  IN IF e > i /\ e <= Len(s) /\ s[e] = "L" THEN e + 1 ELSE 0

\* (?<=[\[ ])0x[\da-f]+L at position i: the position after the match, or 0
MatchHexAt(s, i) ==
  IF i > 1 /\ s[i - 1] \in Boundary /\ i + 1 <= Len(s)
     /\ s[i] = "0" /\ s[i + 1] = "x"
  THEN LET e == RunEnd(s, i + 2, HexDigits)
       IN IF e > i + 2 /\ e <= Len(s) /\ s[e] = "L" THEN e + 1 ELSE 0
  ELSE 0

\* the alternation, first alternative first
LongMatchAt(s, i) ==
  IF MatchHexAt(s, i) # 0 THEN MatchHexAt(s, i) ELSE MatchDecAt(s, i)

RECURSIVE LongSplitFrom(_, _, _)
\* re.split with one capture group, the text before `last` already emitted and
\* the scan at position i: [text, match, text, match, ..., text]
LongSplitFrom(s, last, i) ==
  IF i > Len(s) THEN <<Drop(s, last)>>
  ELSE LET e == LongMatchAt(s, i)
       IN IF e = 0 THEN LongSplitFrom(s, last, i + 1)
          ELSE <<SubSeq(s, last, i - 1), SubSeq(s, i, e - 1)>>
               \o LongSplitFrom(s, e, e)

LongSplit(s) == LongSplitFrom(s, 1, 1)

\* --------------------------------------------------------------- fixOutput
\* first loop: a str element becomes the list re.split returns, any other
\* element is appended as it is
SplitElem(elem) ==
  IF elem.kind = "str"
  THEN List([k \in 1..Len(LongSplit(elem.val)) |-> Str(LongSplit(elem.val)[k])])
  ELSE elem

\* item[:-1] for every item of two or more characters, the test for 'L' left out
StripItemAlways(item) ==
  IF Len(item) > 1 THEN SubSeq(item, 1, Len(item) - 1) ELSE item

\* item[:-1] when len(item) > 1 and item[-1] == 'L', else item (item a str)
StripItem(item) ==
  IF Len(item) > 1 /\ item[Len(item)] = "L"
  THEN SubSeq(item, 1, Len(item) - 1) ELSE item

\* second loop, one element: every element that is a list is joined, whether
\* the first loop made it or the caller passed it
ResolveElem(elem) ==
  IF elem.kind = "list"
  THEN Str(Concat([k \in 1..Len(elem.val) |-> StripItem(elem.val[k].val)]))
  ELSE elem

\* len(item) or ''.join raises TypeError on an item that is not a str
ElemRaises(elem) ==
  elem.kind = "list" /\ \E k \in 1..Len(elem.val) : elem.val[k].kind # "str"

fixOutput(lst) ==
  LET splitList == [k \in 1..Len(lst) |-> SplitElem(lst[k])]
  IN IF \E k \in 1..Len(splitList) : ElemRaises(splitList[k])
     THEN TypeError
     ELSE Ok([k \in 1..Len(splitList) |-> ResolveElem(splitList[k])])

\* ------------------------------------------------------- fixOutput inputs
FoAlphabet == {"[", " ", "0", "x", "a", "L"}

\* the string of the documented example, "[0x10L, 5L]"
ExampleLongs == <<"[", "0", "x", "1", "0", "L", ",", " ", "5", "L", "]">>
ExampleLongsFixed == <<"[", "0", "x", "1", "0", ",", " ", "5", "]">>

\* the elements mixed lists are made of: strings, non-strings, lists
SampleElems ==
  { Str(<<"0", "L">>), Str(<<"a">>), IntVal, NoneVal,
    List(<<>>), List(<<Str(<<"a">>), Str(<<"a", "L">>)>>), List(<<IntVal>>) }

FoInputs ==
  {<<Str(s)>> : s \in SeqsUpTo(FoAlphabet, MaxLen)}
    \cup SeqsUpTo(SampleElems, MaxElems)
    \cup {<<Str(ExampleLongs)>>}

\* ----------------------------------------------------------- idle values
FoIdle ==
  outputList = <<>> /\ foResult = NoResult /\ foResult2 = NoResult /\ foPc = "idle"
FsIdle ==
  setString = <<>> /\ fsResult = <<>> /\ fsResult2 = <<>> /\ fsPc = "idle"
RlIdle ==
  type_string = <<>> /\ rlResult = <<>> /\ rlResult2 = <<>> /\ rlPc = "idle"
CmIdle ==
  cmString = <<>> /\ cmStripFirst = NoResult /\ cmFixFirst = NoResult /\ cmPc = "idle"
SrIdle ==
  srString = <<>> /\ srResult = <<>> /\ srResult2 = <<>> /\ srPc = "idle"
MtIdle ==
  /\ members = <<>> /\ mtResult = NoResult /\ mtResult2 = NoResult
  /\ mtInvoked = {} /\ mtPc = "idle"
FxIdle ==
  files = {} /\ zipContent = <<>> /\ fxBefore = {} /\ fxLog = <<>>
TmIdle ==
  /\ tmMethod = "" /\ tmFiles = {} /\ tmZipContent = <<>> /\ tmLog = <<>>
  /\ tmPc = "idle" /\ tmExit = "none" /\ tmRound = 0
VrIdle ==
  vrMethod = "" /\ vrObs = <<>> /\ vrEngineRaises = FALSE /\ vrOutcome = NoResult
StIdle ==
  /\ stMethod = "" /\ stSettings = <<>> /\ stBefore = <<>> /\ stSaved = <<>>
  /\ stPc = "idle" /\ stIdx = 0 /\ stExit = "none"
EnIdle ==
  /\ enMethod = "" /\ enStart = 0 /\ enBase = <<>> /\ enKept = 0 /\ enEngine = <<>>
  /\ enDb = <<>> /\ enSeen = <<>> /\ enPc = 0 /\ enResult = NoResult
CbIdle ==
  /\ cbPc = "idle" /\ cbFlag = FALSE /\ cbRegistered = {} /\ cbViews = <<>>
  /\ cbFiles = {} /\ cbZipContent = <<>> /\ cbExit = "none"
EvIdle ==
  evAll = <<>> /\ evLeft = {} /\ evResults = <<>> /\ evReturned = NoResult
TpIdle ==
  tpMethod = "" /\ tpPc = 0 /\ tpName = "" /\ tpTemp = {} /\ tpExit = "idle"

\* the initial values of the functions a specification leaves out
FoRestIdle == FsIdle /\ RlIdle /\ CmIdle /\ SrIdle /\ MtIdle /\ FxIdle /\ TmIdle /\ VrIdle /\ StIdle /\ EnIdle /\ CbIdle /\ EvIdle /\ TpIdle
FsRestIdle == FoIdle /\ RlIdle /\ CmIdle /\ SrIdle /\ MtIdle /\ FxIdle /\ TmIdle /\ VrIdle /\ StIdle /\ EnIdle /\ CbIdle /\ EvIdle /\ TpIdle
RlRestIdle == FoIdle /\ FsIdle /\ CmIdle /\ SrIdle /\ MtIdle /\ FxIdle /\ TmIdle /\ VrIdle /\ StIdle /\ EnIdle /\ CbIdle /\ EvIdle /\ TpIdle
CmRestIdle == FoIdle /\ FsIdle /\ RlIdle /\ SrIdle /\ MtIdle /\ FxIdle /\ TmIdle /\ VrIdle /\ StIdle /\ EnIdle /\ CbIdle /\ EvIdle /\ TpIdle
SrRestIdle == FoIdle /\ FsIdle /\ RlIdle /\ CmIdle /\ MtIdle /\ FxIdle /\ TmIdle /\ VrIdle /\ StIdle /\ EnIdle /\ CbIdle /\ EvIdle /\ TpIdle
MtRestIdle == FoIdle /\ FsIdle /\ RlIdle /\ CmIdle /\ SrIdle /\ FxIdle /\ TmIdle /\ VrIdle /\ StIdle /\ EnIdle /\ CbIdle /\ EvIdle /\ TpIdle
FxRestIdle == FoIdle /\ FsIdle /\ RlIdle /\ CmIdle /\ SrIdle /\ MtIdle /\ TmIdle /\ VrIdle /\ StIdle /\ EnIdle /\ CbIdle /\ EvIdle /\ TpIdle
TmRestIdle == FoIdle /\ FsIdle /\ RlIdle /\ CmIdle /\ SrIdle /\ MtIdle /\ FxIdle /\ VrIdle /\ StIdle /\ EnIdle /\ CbIdle /\ EvIdle /\ TpIdle
VrRestIdle == FoIdle /\ FsIdle /\ RlIdle /\ CmIdle /\ SrIdle /\ MtIdle /\ FxIdle /\ TmIdle /\ StIdle /\ EnIdle /\ CbIdle /\ EvIdle /\ TpIdle
StRestIdle == FoIdle /\ FsIdle /\ RlIdle /\ CmIdle /\ SrIdle /\ MtIdle /\ FxIdle /\ TmIdle /\ VrIdle /\ EnIdle /\ CbIdle /\ EvIdle /\ TpIdle
EnRestIdle == FoIdle /\ FsIdle /\ RlIdle /\ CmIdle /\ SrIdle /\ MtIdle /\ FxIdle /\ TmIdle /\ VrIdle /\ StIdle /\ CbIdle /\ EvIdle /\ TpIdle
CbRestIdle == FoIdle /\ FsIdle /\ RlIdle /\ CmIdle /\ SrIdle /\ MtIdle /\ FxIdle /\ TmIdle /\ VrIdle /\ StIdle /\ EnIdle /\ EvIdle /\ TpIdle
EvRestIdle == FoIdle /\ FsIdle /\ RlIdle /\ CmIdle /\ SrIdle /\ MtIdle /\ FxIdle /\ TmIdle /\ VrIdle /\ StIdle /\ EnIdle /\ CbIdle /\ TpIdle
TpRestIdle == FoIdle /\ FsIdle /\ RlIdle /\ CmIdle /\ SrIdle /\ MtIdle /\ FxIdle /\ TmIdle /\ VrIdle /\ StIdle /\ EnIdle /\ CbIdle /\ EvIdle

\* ------------------------------------------- specification: fixOutput
InitFixOutput ==
  /\ outputList \in FoInputs
  /\ foResult = NoResult /\ foResult2 = NoResult /\ foPc = "start"
  /\ FoRestIdle

\* result = fixOutput(outputList)
FixOutputCall ==
  /\ foPc = "start"
  /\ foResult' = fixOutput(outputList)
  /\ foPc' = "called"
  /\ UNCHANGED <<outputList, foResult2, foRest>>

\* fixOutput applied to the list the first call returned
FixOutputAgain ==
  /\ foPc = "called" /\ foResult.status = "ok"
  /\ foResult2' = fixOutput(foResult.val)
  /\ foPc' = "again"
  /\ UNCHANGED <<outputList, foResult, foRest>>

NextFixOutput == FixOutputCall \/ FixOutputAgain

SpecFixOutput == InitFixOutput /\ [][NextFixOutput]_vars

\* ------------------------------------------------------------------ fixSet
\* the literal text of the pattern's lookbehind and lookahead, and the
\* separator of str.split and str.join
OpenDelim == <<"<", "i", "n", " ", "s", "e", "t", "(", "[">>
CloseDelim == <<"]", ")", ">">>
Separator == <<",", " ">>

\* code points, the order sorted() compares str by
CodePoint(c) ==
  CASE c = "\n" -> 10 [] c = " " -> 32 [] c = "(" -> 40 [] c = ")" -> 41
    [] c = "," -> 44 [] c = "<" -> 60 [] c = ">" -> 62 [] c = "[" -> 91
    [] c = "]" -> 93 [] c = "a" -> 97 [] c = "b" -> 98 [] c = "e" -> 101
    [] c = "i" -> 105 [] c = "n" -> 110 [] c = "s" -> 115 [] c = "t" -> 116
    [] c = "_" -> 95 [] c = "c" -> 99 [] c = "d" -> 100 [] c = "f" -> 102
    [] c = "g" -> 103 [] c = "h" -> 104 [] c = "k" -> 107 [] c = "l" -> 108
    [] c = "m" -> 109 [] c = "o" -> 111 [] c = "p" -> 112 [] c = "r" -> 114
    [] c = "u" -> 117 [] c = "0" -> 48 [] c = "4" -> 52 [] c = "L" -> 76
    [] c = "w" -> 119 [] c = "x" -> 120

\* t occurs in s at position i
HasAt(s, i, t) ==
  i >= 1 /\ i + Len(t) - 1 <= Len(s) /\ SubSeq(s, i, i + Len(t) - 1) = t

RECURSIVE LineEnd(_, _)
\* where a greedy .* started at i stops: '.' matches anything but a newline
LineEnd(s, i) ==
  IF i <= Len(s) /\ s[i] # "\n" THEN LineEnd(s, i + 1) ELSE i

\* the pattern without its lookahead, (?<=<in set\(\[).* : the match runs to the
\* end of the line
SetMatchAtNoLookahead(s, i) ==
  IF ~HasAt(s, i - Len(OpenDelim), OpenDelim) THEN 0 ELSE LineEnd(s, i)

\* (?<=<in set\(\[).*(?=\]\)>) at position i: the position after the match,
\* 0 when it fails.  The greedy .* gives back characters until the lookahead
\* holds, so the match ends at the last "])>" of the line.
SetMatchAt(s, i) ==
  IF ~HasAt(s, i - Len(OpenDelim), OpenDelim) THEN 0
  ELSE LET ends == {j \in i..LineEnd(s, i) : HasAt(s, j, CloseDelim)}
       IN IF ends = {} THEN 0 ELSE CHOOSE j \in ends : \A k \in ends : k <= j

RECURSIVE SetSplitFrom(_, _, _, _)
\* re.split with one capture group, the text before `last` already emitted and
\* the scan at position i; after an empty match the next match may not be an
\* empty one at the same position
SetSplitFrom(s, last, i, mustAdvance) ==
  IF i > Len(s) + 1 THEN <<Drop(s, last)>>
  ELSE LET e == SetMatchAt(s, i)
       IN IF e = 0 \/ (mustAdvance /\ e = i)
          THEN SetSplitFrom(s, last, i + 1, FALSE)
          ELSE <<SubSeq(s, last, i - 1), SubSeq(s, i, e - 1)>>
               \o SetSplitFrom(s, e, e, e = i)

SetSplit(s) == SetSplitFrom(s, 1, 1, FALSE)

RECURSIVE FirstAt(_, _, _)
\* s.find(t, i): the first position at or after i where t occurs, 0 if none
FirstAt(s, t, i) ==
  IF i + Len(t) - 1 > Len(s) THEN 0
  ELSE IF HasAt(s, i, t) THEN i ELSE FirstAt(s, t, i + 1)

RECURSIVE StrSplit(_, _)
\* s.split(sep)
StrSplit(s, sep) ==
  LET at == FirstAt(s, sep, 1)
  IN IF at = 0 THEN <<s>>
     ELSE <<SubSeq(s, 1, at - 1)>> \o StrSplit(Drop(s, at + Len(sep)), sep)

RECURSIVE StrJoin(_, _)
\* sep.join(pieces)
StrJoin(pieces, sep) ==
  IF pieces = <<>> THEN <<>>
  ELSE IF Len(pieces) = 1 THEN pieces[1]
  ELSE pieces[1] \o sep \o StrJoin(Tail(pieces), sep)

RECURSIVE StrLess(_, _)
\* a < b for two str: by code point, a proper prefix first
StrLess(a, b) ==
  IF b = <<>> THEN FALSE
  ELSE IF a = <<>> THEN TRUE
  ELSE IF a[1] # b[1] THEN CodePoint(a[1]) < CodePoint(b[1])
  ELSE StrLess(Tail(a), Tail(b))

RECURSIVE Insert(_, _)
\* x put into the ascending list l
Insert(x, l) ==
  IF l = <<>> THEN <<x>>
  ELSE IF StrLess(l[1], x) THEN <<l[1]>> \o Insert(x, Tail(l))
  ELSE <<x>> \o l

RECURSIVE Sorted(_)
\* sorted(l)
Sorted(l) == IF l = <<>> THEN <<>> ELSE Insert(l[1], Sorted(Tail(l)))

fixSet(string) ==
  LET splitList == SetSplit(string)
  IN IF Len(splitList) > 1
     THEN splitList[1] \o StrJoin(Sorted(StrSplit(splitList[2], Separator)), Separator)
          \o splitList[3]
     ELSE string

\* ---------------------------------------------------------- fixSet inputs
\* the pieces input strings are put together from
FsChunks ==
  {OpenDelim, CloseDelim, Separator, <<"a">>, <<"b">>, <<"\n">>}

FsInputs == {Concat(cs) : cs \in SeqsUpTo(FsChunks, MaxChunks)}

\* ---------------------------------------------- specification: fixSet
InitFixSet ==
  /\ setString \in FsInputs
  /\ fsResult = <<>> /\ fsResult2 = <<>> /\ fsPc = "start"
  /\ FsRestIdle

\* fixSet(string)
FixSetCall ==
  /\ fsPc = "start"
  /\ fsResult' = fixSet(setString)
  /\ fsPc' = "called"
  /\ UNCHANGED <<setString, fsResult2, fsRest>>

\* fixSet applied to the string the first call returned
FixSetAgain ==
  /\ fsPc = "called"
  /\ fsResult2' = fixSet(fsResult)
  /\ fsPc' = "again"
  /\ UNCHANGED <<setString, fsResult, fsRest>>

NextFixSet == FixSetCall \/ FixSetAgain

SpecFixSet == InitFixSet /\ [][NextFixSet]_vars

\* --------------------------------------------------- remove_low_confidence
\* s.replace(old, new, 1): the first occurrence only
StrReplaceFirst(s, old, new) ==
  LET at == FirstAt(s, old, 1)
  IN IF at = 0 THEN s
     ELSE SubSeq(s, 1, at - 1) \o new \o Drop(s, at + Len(old))

RECURSIVE StrReplace(_, _, _)
\* s.replace(old, new): every occurrence, found left to right in one pass
StrReplace(s, old, new) ==
  LET at == FirstAt(s, old, 1)
  IN IF at = 0 THEN s
     ELSE SubSeq(s, 1, at - 1) \o new \o StrReplace(Drop(s, at + Len(old)), old, new)

low_confidence_types ==
  << <<"i", "n", "t", "3", "2", "_", "t">>, <<"v", "o", "i", "d">> >>

RECURSIVE RemoveTypes(_, _)
\* the for loop over the types still to go
RemoveTypes(s, types) ==
  IF types = <<>> THEN s
  ELSE RemoveTypes(StrReplace(s, Head(types) \o <<" ">>, <<>>), Tail(types))

remove_low_confidence(s) == RemoveTypes(s, low_confidence_types)

\* -------------------------------------------- remove_low_confidence inputs
\* the pieces input strings are put together from
RlChunks ==
  { <<"i", "n", "t", "3", "2", "_", "t", " ">>, <<"v", "o", "i", "d", " ">>,
    <<"i", "n", "t", "3", "2", "_", "t">>, <<"v", "o">>, <<"i", "d">>, <<" ">>,
    <<"f", "o", "o", " ">>, <<"b", "a", "r">>, <<"0", "L">> }

RlInputs == {Concat(cs) : cs \in SeqsUpTo(RlChunks, MaxPieces)}

\* the documented example, "int32_t foo void bar", and its result, "foo bar"
ExampleType ==
  <<"i", "n", "t", "3", "2", "_", "t", " ", "f", "o", "o", " ",
    "v", "o", "i", "d", " ", "b", "a", "r">>
ExampleTypeFixed == <<"f", "o", "o", " ", "b", "a", "r">>

\* ------------------------------- specification: remove_low_confidence
InitRemoveLowConfidence ==
  /\ type_string \in RlInputs
  /\ rlResult = <<>> /\ rlResult2 = <<>> /\ rlPc = "start"
  /\ RlRestIdle

\* remove_low_confidence(type_string)
RemoveLowConfidenceCall ==
  /\ rlPc = "start"
  /\ rlResult' = remove_low_confidence(type_string)
  /\ rlPc' = "called"
  /\ UNCHANGED <<type_string, rlResult2, rlRest>>

\* remove_low_confidence applied to the string the first call returned
RemoveLowConfidenceAgain ==
  /\ rlPc = "called"
  /\ rlResult2' = remove_low_confidence(rlResult)
  /\ rlPc' = "again"
  /\ UNCHANGED <<type_string, rlResult, rlRest>>

NextRemoveLowConfidence == RemoveLowConfidenceCall \/ RemoveLowConfidenceAgain

SpecRemoveLowConfidence ==
  InitRemoveLowConfidence /\ [][NextRemoveLowConfidence]_vars

\* --------------------------------------------------- claims on fixOutput
\* the call was made on a list holding exactly one str
SingleStr == Len(outputList) = 1 /\ outputList[1].kind = "str"

\* 0x + hex digits + L at position i, whatever precedes it: the position
\* after the literal, 0 when there is none
HexLiteralAt(s, i) ==
  IF i + 1 <= Len(s) /\ s[i] = "0" /\ s[i + 1] = "x"
  THEN LET e == RunEnd(s, i + 2, HexDigits)
       IN IF e > i + 2 /\ e <= Len(s) /\ s[e] = "L" THEN e + 1 ELSE 0
  ELSE 0

\* s holds a hexadecimal or a decimal literal followed by L
HasSuffixedLiteral(s) ==
  \E i \in 1..Len(s) : HexLiteralAt(s, i) # 0 \/ MatchDecAt(s, i) # 0

\* the whole of t is one suffixed literal
IsSuffixedLiteral(t) ==
  Len(t) > 0 /\ (HexLiteralAt(t, 1) = Len(t) + 1 \/ MatchDecAt(t, 1) = Len(t) + 1)

\* s is a suffixed literal that starts the string, or follows one character
\* that is neither '[' nor a space
UnguardedLiteral(s) ==
  \/ IsSuffixedLiteral(s)
  \/ Len(s) > 1 /\ s[1] \notin Boundary /\ IsSuffixedLiteral(Tail(s))

\* s with the last character of every matched token removed and every other
\* piece kept as it is
StripMatchedOnly(s) ==
  LET pieces == LongSplit(s)
  IN Concat([k \in 1..Len(pieces) |->
       IF k % 2 = 0 THEN SubSeq(pieces[k], 1, Len(pieces[k]) - 1) ELSE pieces[k]])

\* C1: fixOutput is idempotent: fixOutput(fixOutput(S)) = fixOutput(S) for
\* every list S of strings and non-strings.
C1_Idempotent == foPc = "again" => foResult2 = foResult

\* C2: a string holding no hexadecimal or decimal literal followed by L comes
\* back unchanged: fixOutput([s]) = [s].
C2_NoLiteralNoOp ==
  (foPc = "called" /\ SingleStr /\ ~HasSuffixedLiteral(outputList[1].val))
    => foResult = Ok(outputList)

\* C3: fixOutput removes the trailing L of every matched token and keeps every
\* other character, the pieces in their original order.
C3_StripsMatchedTokensOnly ==
  (foPc = "called" /\ SingleStr)
    => /\ foResult = Ok(<<Str(StripMatchedOnly(outputList[1].val))>>)
       /\ outputList = <<Str(ExampleLongs)>>
            => foResult = Ok(<<Str(ExampleLongsFixed)>>)

\* C4: a suffixed literal that starts the string or follows a character other
\* than '[' and space is left unchanged.
C4_OnlyAfterBoundary ==
  (foPc = "called" /\ SingleStr /\ UnguardedLiteral(outputList[1].val))
    => foResult = Ok(outputList)

\* C5: whenever fixOutput returns, the result is as long as the input and
\* every element that is not a str (a list included) is unchanged at its index.
C5_NonStringsPassThrough ==
  (foPc = "called" /\ foResult.status = "ok")
    => /\ Len(foResult.val) = Len(outputList)
       /\ \A k \in 1..Len(outputList) :
            outputList[k].kind # "str" => foResult.val[k] = outputList[k]

\* ------------------------------------------------------ claims on fixSet
\* the places of a set notation in s: <<i, j>> with "<in set([" ending right
\* before i and a "])>" starting at j, the member list being s[i..j-1]
SetNotations(s) ==
  {d \in (1..Len(s) + 1) \X (1..Len(s) + 1) :
     /\ d[1] <= d[2]
     /\ HasAt(s, d[1] - Len(OpenDelim), OpenDelim)
     /\ HasAt(s, d[2], CloseDelim)}

\* the ', '-separated members of the set notation d of s
Members(s, d) == StrSplit(SubSeq(s, d[1], d[2] - 1), Separator)

\* s with the member list of its set notation d replaced by the members m
WithMembers(s, d, m) ==
  SubSeq(s, 1, d[1] - 1) \o StrJoin(m, Separator) \o Drop(s, d[2])

\* every order of the members m
Orderings(m) ==
  {[k \in 1..Len(m) |-> m[f[k]]] :
     f \in {g \in [1..Len(m) -> 1..Len(m)] : \A a, b \in 1..Len(m) : g[a] = g[b] => a = b}}

\* the set notations of s whose member list lies on one line
LineNotations(s) == {d \in SetNotations(s) : d[2] <= LineEnd(s, d[1])}

\* C6: strings that differ only by a permutation of the member list of a set
\* notation get the same result, the one with the members in ascending order
\* (stated for member lists on one line, and for the reading of "the set
\* notation" most favourable to the code).
C6_OrderIndependent ==
  (fsPc = "called" /\ LineNotations(setString) # {})
    => \E d \in LineNotations(setString) :
         /\ fsResult = WithMembers(setString, d, Sorted(Members(setString, d)))
         /\ \A m \in Orderings(Members(setString, d)) :
              fixSet(WithMembers(setString, d, m)) = fsResult

\* C7: with a set notation in the string, fixSet changes the member list only:
\* the text up to "<in set([" and the text from "])>" on come back unchanged.
C7_OnlyMemberListChanges ==
  (fsPc = "called" /\ SetNotations(setString) # {})
    => \E d \in SetNotations(setString) :
         /\ Len(fsResult) = Len(setString)
         /\ SubSeq(fsResult, 1, d[1] - 1) = SubSeq(setString, 1, d[1] - 1)
         /\ Drop(fsResult, d[2]) = Drop(setString, d[2])

\* C8: a string without "<in set([" followed later by "])>" comes back
\* unchanged: fixSet(s) = s.
C8_NoShapeNoChange ==
  (fsPc = "called" /\ SetNotations(setString) = {}) => fsResult = setString

\* C8, its case: "<in set([b, a" has the opening and an unsorted member list
\* but no closing, and fixSet returned it as it was
C8_Witness ==
  /\ fsPc = "called"
  /\ setString = OpenDelim \o <<"b", ",", " ", "a">>
  /\ SetNotations(setString) = {}
  /\ fsResult = setString

\* C9: fixSet is idempotent: fixSet(fixSet(s)) = fixSet(s).
C9_SetIdempotent == fsPc = "again" => fsResult2 = fsResult

\* --------------------------------------- claims on remove_low_confidence
\* the positions of s inside an occurrence of tok
Covered(s, tok) ==
  {p \in 1..Len(s) : \E i \in 1..Len(s) : HasAt(s, i, tok) /\ i <= p /\ p < i + Len(tok)}

RECURSIVE KeepFrom(_, _, _)
\* the characters of s at the positions of P from i on, in order
KeepFrom(s, P, i) ==
  IF i > Len(s) THEN <<>>
  ELSE (IF i \in P THEN <<s[i]>> ELSE <<>>) \o KeepFrom(s, P, i + 1)

\* s with every occurrence of tok deleted
DeleteEvery(s, tok) == KeepFrom(s, (1..Len(s)) \ Covered(s, tok), 1)

\* C10: remove_low_confidence(s) is s with every occurrence of "int32_t "
\* deleted and then every occurrence of "void " deleted from that; and
\* "int32_t foo void bar" gives "foo bar".
C10_RemovesEveryOccurrence ==
  rlPc = "called" =>
    /\ rlResult =
         DeleteEvery(DeleteEvery(type_string, <<"i", "n", "t", "3", "2", "_", "t", " ">>),
                     <<"v", "o", "i", "d", " ">>)
    /\ type_string = ExampleType => rlResult = ExampleTypeFixed

\* C10, its case: the documented example went through the call
C10_Witness ==
  rlPc = "called" /\ type_string = ExampleType /\ rlResult = ExampleTypeFixed

\* C11: the result of remove_low_confidence holds no "int32_t " and no
\* "void ", so a second call returns it unchanged.
C11_CanonicalForm ==
  rlPc = "again" =>
    /\ FirstAt(rlResult, <<"i", "n", "t", "3", "2", "_", "t", " ">>, 1) = 0
    /\ FirstAt(rlResult, <<"v", "o", "i", "d", " ">>, 1) = 0
    /\ rlResult2 = rlResult

\* ------- specification: remove_low_confidence and fixOutput, both orders
\* the pieces type tokens are put together from
CmChunks ==
  { <<"i", "n", "t", "3", "2", "_", "t", " ">>, <<"v", "o", "i", "d", " ">>,
    <<"i", "n", "t", "3">>, <<"2", "_", "t", " ">>,
    <<"0">>, <<"L">>, <<"a">>, <<" ">> }

CmInputs == {Concat(cs) : cs \in SeqsUpTo(CmChunks, MaxPieces)}

InitCompose ==
  /\ cmString \in CmInputs
  /\ cmStripFirst = NoResult /\ cmFixFirst = NoResult /\ cmPc = "start"
  /\ CmRestIdle

\* test_functions_attributes: token = remove_low_confidence(token), the string
\* is appended to funcinfo, and fixOutput(funcinfo) is returned
StripThenFix ==
  /\ cmPc = "start"
  /\ cmStripFirst' = fixOutput(<<Str(remove_low_confidence(cmString))>>)
  /\ cmPc' = "stripped"
  /\ UNCHANGED <<cmString, cmFixFirst, cmRest>>

\* the other order: fixOutput on the raw token, remove_low_confidence on the
\* single element of its result
FixThenStrip ==
  /\ cmPc = "stripped"
  /\ cmFixFirst' =
       Ok(<<Str(remove_low_confidence(fixOutput(<<Str(cmString)>>).val[1].val))>>)
  /\ cmPc' = "done"
  /\ UNCHANGED <<cmString, cmStripFirst, cmRest>>

NextCompose == StripThenFix \/ FixThenStrip

SpecCompose == InitCompose /\ [][NextCompose]_vars

Ellipsis == "U+2026"

\* the str "\\xe2\\x80\\xa6": twelve characters
EllipsisEscaped ==
  <<"\\", "x", "e", "2", "\\", "x", "8", "0", "\\", "x", "a", "6">>

\* the str "\xe2\x80\xa6", the backslashes not doubled: three characters
EllipsisLatin1 == <<"U+00E2", "U+0080", "U+00A6">>

\* the replacement written without doubled backslashes
fixStrReprUnescaped(string) == StrReplace(string, <<Ellipsis>>, EllipsisLatin1)

fixStrRepr(string) == StrReplace(string, <<Ellipsis>>, EllipsisEscaped)

SrAlphabet == {Ellipsis, "a", "\\", "x"}

SrInputs == SeqsUpTo(SrAlphabet, MaxLen)

InitFixStrRepr ==
  /\ srString \in SrInputs
  /\ srResult = <<>> /\ srResult2 = <<>> /\ srPc = "start"
  /\ SrRestIdle

\* fixStrRepr(string)
FixStrReprCall ==
  /\ srPc = "start"
  /\ srResult' = fixStrRepr(srString)
  /\ srPc' = "called"
  /\ UNCHANGED <<srString, srResult2, srRest>>

\* fixStrRepr applied to the string the first call returned
FixStrReprAgain ==
  /\ srPc = "called"
  /\ srResult2' = fixStrRepr(srResult)
  /\ srPc' = "again"
  /\ UNCHANGED <<srString, srResult, srRest>>

NextFixStrRepr == FixStrReprCall \/ FixStrReprAgain

SpecFixStrRepr == InitFixStrRepr /\ [][NextFixStrRepr]_vars

RECURSIVE EscapeEach(_)
\* s character by character: the ellipsis as its twelve-character escape, any
\* other character as it is
EscapeEach(s) ==
  IF s = <<>> THEN <<>>
  ELSE (IF Head(s) = Ellipsis THEN EllipsisEscaped ELSE <<Head(s)>>)
       \o EscapeEach(Tail(s))

\* C13: fixStrRepr replaces every U+2026 by the twelve characters \xe2\x80\xa6
\* and keeps every other character; its result holds no U+2026, and a second
\* call returns it unchanged.
C13_EllipsisEscaped ==
  /\ Len(EllipsisEscaped) = 12
  /\ srPc \in {"called", "again"} =>
       /\ srResult = EscapeEach(srString)
       /\ \A k \in 1..Len(srResult) : srResult[k] # Ellipsis
  /\ srPc = "again" => srResult2 = srResult

\* C13, its case: a string with two ellipses went through both calls
C13_Witness ==
  /\ srPc = "again"
  /\ srString = <<"a", Ellipsis, "\\", Ellipsis>>
  /\ Len(srResult) = 26

\* ------------------------------------------------------- Builder.methods
\* An object is a function from attribute names to what getattr gives there:
\* "method" a bound method, "raising_method" a bound method whose call would
\* raise, "classmethod" a method bound to the class, "staticmethod" a plain
\* function, "data" any other value, "absent" no such attribute.
Name(cs) == cs

NTestA == Name(<<"t", "e", "s", "t", "_", "a">>)
NTestB == Name(<<"t", "e", "s", "t", "_", "b">>)
NHelperC == Name(<<"h", "e", "l", "p", "e", "r", "_", "c">>)
NTest == Name(<<"t", "e", "s", "t">>)
NTestUnderscore == Name(<<"t", "e", "s", "t", "_">>)
NInit == Name(<<"_", "_", "i", "n", "i", "t", "_", "_">>)
NMethods == Name(<<"m", "e", "t", "h", "o", "d", "s">>)
NUnpackageFile ==
  Name(<<"u", "n", "p", "a", "c", "k", "a", "g", "e", "_", "f", "i", "l", "e">>)
NDeletePackage ==
  Name(<<"d", "e", "l", "e", "t", "e", "_", "p", "a", "c", "k", "a", "g", "e">>)
NTestStore == Name(<<"t", "e", "s", "t", "_", "s", "t", "o", "r", "e">>)

\* what class Builder gives every object: its four methods, and the
\* attribute test_store that __init__ sets
BuilderMembers ==
  [n \in {NInit, NMethods, NUnpackageFile, NDeletePackage} |-> "method"]
    @@ (NTestStore :> "data")

\* the names a subclass may define, and what it may define them as
SubclassNames == {NTestA, NTestB, NHelperC, NTest, NTestUnderscore}
MemberKinds ==
  {"absent", "method", "raising_method", "classmethod", "staticmethod", "data"}

\* the predicate left out: every attribute is a member
IsMember(obj, n) == obj[n] # "absent"

\* inspect.ismethod(getattr(obj, n))
IsMethod(obj, n) == obj[n] \in {"method", "raising_method", "classmethod"}

\* dir(obj)
Dir(obj) == {n \in DOMAIN obj : obj[n] # "absent"}

RECURSIVE SortedNames(_)
\* the names of the set S in ascending order
SortedNames(S) ==
  IF S = {} THEN <<>>
  ELSE LET least == CHOOSE n \in S : \A m \in S \ {n} : StrLess(n, m)
       IN <<least>> \o SortedNames(S \ {least})

\* the sort left out, the names in the opposite order
Reversed(l) == [k \in 1..Len(l) |-> l[Len(l) + 1 - k]]
GetMembersUnsorted(obj) == Reversed(SortedNames({n \in Dir(obj) : IsMethod(obj, n)}))

\* the names of inspect.getmembers(obj, predicate=inspect.ismethod): the
\* attributes of dir(obj) that pass the predicate, sorted by name
GetMembers(obj) == SortedNames({n \in Dir(obj) : IsMethod(obj, n)})

TestPrefix == <<"t", "e", "s", "t", "_">>

RECURSIVE KeepTests(_)
\* the loop of methods(): the names that start with "test_", in order
KeepTests(names) ==
  IF names = <<>> THEN <<>>
  ELSE (IF HasAt(Head(names), 1, TestPrefix) THEN <<Head(names)>> ELSE <<>>)
       \o KeepTests(Tail(names))

RECURSIVE RunEach(_, _, _)
\* discovery that calls each method it finds: stops at the first that raises
RunEach(obj, names, done) ==
  IF names = <<>> THEN [status |-> "ok", val |-> done, invoked |-> {done[k] : k \in 1..Len(done)}]
  ELSE IF obj[Head(names)] = "raising_method"
       THEN [status |-> "raised", val |-> <<>>,
             invoked |-> {done[k] : k \in 1..Len(done)} \cup {Head(names)}]
       ELSE RunEach(obj, Tail(names), Append(done, Head(names)))

methodsByRunning(obj) == RunEach(obj, KeepTests(GetMembers(obj)), <<>>)

\* Builder.methods: the list returned and the methods called on the way (none)
methods(obj) ==
  [status |-> "ok", val |-> KeepTests(GetMembers(obj)), invoked |-> {}]

InitMethods ==
  /\ members \in {sub @@ BuilderMembers : sub \in [SubclassNames -> MemberKinds]}
  /\ mtResult = NoResult /\ mtResult2 = NoResult /\ mtInvoked = {} /\ mtPc = "start"
  /\ MtRestIdle

\* self.methods()
MethodsCall ==
  /\ mtPc = "start"
  /\ mtResult' = [status |-> methods(members).status, val |-> methods(members).val]
  /\ mtInvoked' = mtInvoked \cup methods(members).invoked
  /\ mtPc' = "called"
  /\ UNCHANGED <<members, mtResult2, mtRest>>

\* self.methods() once more on the same object
MethodsAgain ==
  /\ mtPc = "called" /\ mtResult.status = "ok"
  /\ mtResult2' = [status |-> methods(members).status, val |-> methods(members).val]
  /\ mtInvoked' = mtInvoked \cup methods(members).invoked
  /\ mtPc' = "again"
  /\ UNCHANGED <<members, mtResult, mtRest>>

NextMethods == MethodsCall \/ MethodsAgain

SpecMethods == InitMethods /\ [][NextMethods]_vars

\* ------------------------------------------- claims on Builder.methods
\* the names the list l holds
Names(l) == {l[k] : k \in 1..Len(l)}

\* the object of the documented scenario: methods test_a, test_b, helper_c
ScenarioObject ==
  [n \in SubclassNames |->
     IF n \in {NTestA, NTestB, NHelperC} THEN "method" ELSE "absent"] @@ BuilderMembers

\* C14: methods() returns exactly the names of the bound methods whose name
\* begins with "test_"; for test_a, test_b, helper_c it returns test_a and
\* test_b and neither helper_c nor Builder's own methods.
C14_ExactlyTestMethods ==
  mtPc = "called" =>
    /\ mtResult.status = "ok"
    /\ Names(mtResult.val) =
         {n \in DOMAIN members :
            /\ members[n] \in {"method", "raising_method", "classmethod"}
            /\ Len(n) >= 5 /\ SubSeq(n, 1, 5) = <<"t", "e", "s", "t", "_">>}
    /\ Names(mtResult.val) \cap {NHelperC, NMethods, NUnpackageFile, NDeletePackage, NTestStore} = {}
    /\ members = ScenarioObject => Names(mtResult.val) = {NTestA, NTestB}

\* C14, its case: the scenario object, with test_a and test_b returned
C14_Witness ==
  mtPc = "called" /\ members = ScenarioObject /\ mtResult.val = <<NTestA, NTestB>>

\* C15: methods() returns no name twice and the names in ascending order, and a
\* second call on the same object returns the same sequence.
C15_AscendingNoRepeats ==
  /\ mtPc \in {"called", "again"} =>
       \A i, j \in 1..Len(mtResult.val) : i < j => StrLess(mtResult.val[i], mtResult.val[j])
  /\ mtPc = "again" => mtResult2 = mtResult

\* C15, its case: three test methods returned, twice
C15_Witness ==
  /\ mtPc = "again"
  /\ mtResult.val = <<NTestUnderscore, NTestA, NTestB>>
  /\ mtResult2 = mtResult

\* C16: methods() calls no test method, and returns every test_ method whether
\* or not calling it would raise.
C16_DiscoveryRunsNothing ==
  mtPc \in {"called", "again"} =>
    /\ mtInvoked = {}
    /\ mtResult.status = "ok"
    /\ \A n \in DOMAIN members :
         (members[n] = "raising_method" /\ HasAt(n, 1, TestPrefix))
           => /\ n \in Names(mtResult.val)
              /\ \A m \in DOMAIN members :
                   (members[m] = "method" /\ HasAt(m, 1, TestPrefix))
                     => m \in Names(mtResult.val)

\* C16, its case: test_a would raise, and test_a and its sibling test_b are
\* both returned
C16_Witness ==
  /\ mtPc = "called"
  /\ members[NTestA] = "raising_method" /\ members[NTestB] = "method"
  /\ NTestA \in Names(mtResult.val) /\ NTestB \in Names(mtResult.val)

\* --------------------------- Builder.unpackage_file, Builder.delete_package
\* The sample store on disk.  A path is <<place, filename>>: "artifact" is
\* <dir>/<test_store>/<filename>, "zip" that path + ".zip", and "stray" is
\* <dir>/<filename>, where an archive member stored without its directory
\* lands (<dir> being os.path.dirname(__file__)).  Artifacts are regular files.
FixtureNames == {"sample", "other"}

\* path = os.path.join(os.path.dirname(__file__), self.test_store, filename)
ArtifactPath(filename) == <<"artifact", filename>>
ZipPath(filename) == <<"zip", filename>>
StrayPath(filename) == <<"stray", filename>>

\* what an archive may hold: the artifact under its test_store path ("good"),
\* the artifact without a directory ("stray"), nothing ("empty"), or no
\* readable zip data at all ("corrupt")
ZipKinds == {"good", "stray", "empty", "corrupt"}

\* the files zf.extractall(path = <dir>) writes
Extracted(kind, filename) ==
  CASE kind = "good" -> {ArtifactPath(filename)}
    [] kind = "stray" -> {StrayPath(filename)}
    [] OTHER -> {}

\* ZipFile opened with mode "a": a missing archive is created
unpackage_file_append(fs, zc, filename) ==
  LET path == ArtifactPath(filename)
      after == IF path \in fs THEN fs
               ELSE IF ZipPath(filename) \notin fs THEN fs \cup {ZipPath(filename)}
               ELSE fs \cup Extracted(zc[filename], filename)
  IN IF path \notin fs /\ ZipPath(filename) \in fs /\ zc[filename] = "corrupt"
     THEN [status |-> "BadZipFile", path |-> <<>>, files |-> fs]
     ELSE IF path \notin after
     THEN [status |-> "AssertionError", path |-> <<>>, files |-> after]
     ELSE [status |-> "returned", path |-> path, files |-> after]

\* the assert left out (or compiled away)
unpackage_file_unchecked(fs, zc, filename) ==
  LET path == ArtifactPath(filename)
  IN IF path \in fs THEN [status |-> "returned", path |-> path, files |-> fs]
     ELSE IF ZipPath(filename) \notin fs
     THEN [status |-> "FileNotFoundError", path |-> <<>>, files |-> fs]
     ELSE IF zc[filename] = "corrupt"
     THEN [status |-> "BadZipFile", path |-> <<>>, files |-> fs]
     ELSE [status |-> "returned", path |-> path,
           files |-> fs \cup Extracted(zc[filename], filename)]

\* Builder.unpackage_file on the store fs with archive contents zc: how the
\* call ends, the path returned and the store afterwards
unpackage_file(fs, zc, filename) ==
  LET path == ArtifactPath(filename)
  IN IF path \in fs THEN [status |-> "returned", path |-> path, files |-> fs]
     ELSE IF ZipPath(filename) \notin fs
     THEN [status |-> "FileNotFoundError", path |-> <<>>, files |-> fs]
     ELSE IF zc[filename] = "corrupt"
     THEN [status |-> "BadZipFile", path |-> <<>>, files |-> fs]
     ELSE LET after == fs \cup Extracted(zc[filename], filename)
          IN IF path \in after
             THEN [status |-> "returned", path |-> path, files |-> after]
             ELSE [status |-> "AssertionError", path |-> <<>>, files |-> after]

\* os.unlink wrapped so that a missing file is ignored
delete_package_silent(fs, filename) ==
  [status |-> "returned", files |-> fs \ {ArtifactPath(filename)}]

\* Builder.delete_package: os.unlink(path)
delete_package(fs, filename) ==
  IF ArtifactPath(filename) \in fs
  THEN [status |-> "returned", files |-> fs \ {ArtifactPath(filename)}]
  ELSE [status |-> "FileNotFoundError", files |-> fs]

InitFixtures ==
  /\ files \in SUBSET {p \in {"artifact", "zip"} \X FixtureNames : TRUE}
  /\ zipContent \in [FixtureNames -> ZipKinds]
  /\ fxBefore = files
  /\ fxLog = <<>>
  /\ FxRestIdle

\* self.unpackage_file(filename)
UnpackageFile ==
  /\ Len(fxLog) < MaxCalls
  /\ \E filename \in FixtureNames :
       LET r == unpackage_file(files, zipContent, filename)
       IN /\ files' = r.files
          /\ fxBefore' = files
          /\ fxLog' = Append(fxLog, [op |-> "unpackage_file", filename |-> filename,
                                     status |-> r.status, path |-> r.path])
  /\ UNCHANGED <<zipContent, fxRest>>

\* self.delete_package(filename)
DeletePackage ==
  /\ Len(fxLog) < MaxCalls
  /\ \E filename \in FixtureNames :
       LET r == delete_package(files, filename)
       IN /\ files' = r.files
          /\ fxBefore' = files
          /\ fxLog' = Append(fxLog, [op |-> "delete_package", filename |-> filename,
                                     status |-> r.status, path |-> <<>>])
  /\ UNCHANGED <<zipContent, fxRest>>

NextFixtures == UnpackageFile \/ DeletePackage

SpecFixtures == InitFixtures /\ [][NextFixtures]_vars

\* ------------------------------------------------- claims C17, C18 and C19
\* the call made last
LastCall == fxLog[Len(fxLog)]
LastIs(op) == fxLog # <<>> /\ LastCall.op = op

\* unpackage_file returned: the artifact is on disk and is the path returned
ReturnedPathExists ==
  LastCall.status = "returned" =>
    /\ ArtifactPath(LastCall.filename) \in files
    /\ LastCall.path = ArtifactPath(LastCall.filename)

\* C17 as stated: with the bare artifact absent and the archive present,
\* unpackage_file(name) succeeds; and whenever it returns, the artifact
\* exists on disk and the returned path designates it.
C17_ArchiveSuffices ==
  LastIs("unpackage_file") =>
    /\ (ArtifactPath(LastCall.filename) \notin fxBefore
        /\ ZipPath(LastCall.filename) \in fxBefore)
         => LastCall.status = "returned"
    /\ ReturnedPathExists

\* C17 amended: with the bare artifact absent and the archive present AND
\* holding the artifact under <test_store>/<name>, unpackage_file(name)
\* succeeds; and whenever it returns, the artifact exists on disk and the
\* returned path designates it.
C17_GoodArchiveSuffices ==
  LastIs("unpackage_file") =>
    /\ (ArtifactPath(LastCall.filename) \notin fxBefore
        /\ ZipPath(LastCall.filename) \in fxBefore
        /\ zipContent[LastCall.filename] = "good")
         => LastCall.status = "returned"
    /\ ReturnedPathExists

C17_Witness ==
  /\ LastIs("unpackage_file")
  /\ ArtifactPath(LastCall.filename) \notin fxBefore
  /\ ZipPath(LastCall.filename) \in fxBefore
  /\ zipContent[LastCall.filename] = "good"
  /\ LastCall.status = "returned"
  /\ ArtifactPath(LastCall.filename) \in files

\* C18: with neither the bare artifact nor its archive on disk,
\* unpackage_file(name) ends in the missing-file error (FileNotFoundError
\* from zipfile.ZipFile), returns no path and leaves the store as it was.
C18_MissingFixtureFails ==
  (/\ LastIs("unpackage_file")
   /\ ArtifactPath(LastCall.filename) \notin fxBefore
   /\ ZipPath(LastCall.filename) \notin fxBefore)
    => /\ LastCall.status = "FileNotFoundError"
       /\ LastCall.path = <<>>
       /\ files = fxBefore

C18_Witness ==
  /\ LastIs("unpackage_file")
  /\ ArtifactPath(LastCall.filename) \notin fxBefore
  /\ ZipPath(LastCall.filename) \notin fxBefore
  /\ LastCall.status = "FileNotFoundError"
  /\ fxBefore # {}

\* C19: delete_package(name) removes the artifact and nothing else (the
\* archive stays); with the artifact already absent it raises and changes
\* nothing.
C19_DeleteRemovesOrRaises ==
  LastIs("delete_package") =>
    IF ArtifactPath(LastCall.filename) \in fxBefore
    THEN /\ LastCall.status = "returned"
         /\ files = fxBefore \ {ArtifactPath(LastCall.filename)}
         /\ (ZipPath(LastCall.filename) \in fxBefore
               => ZipPath(LastCall.filename) \in files)
    ELSE /\ LastCall.status # "returned"
         /\ files = fxBefore

\* materialize from the archive, release, release again
C19_Witness ==
  /\ Len(fxLog) = 3
  /\ \E n \in FixtureNames :
       /\ \A i \in 1..3 : fxLog[i].filename = n
       /\ fxLog[1].op = "unpackage_file" /\ fxLog[1].status = "returned"
       /\ fxLog[2].op = "delete_package" /\ fxLog[2].status = "returned"
       /\ fxLog[3].op = "delete_package" /\ fxLog[3].status = "FileNotFoundError"
       /\ ZipPath(n) \in files
       /\ ArtifactPath(n) \notin files

\* ------------------------------- the test methods that use a packaged sample
\* release in a finally clause:  file_name = self.unpackage_file(f)
\*                               try: ... return ...
\*                               finally: self.delete_package(f)
TryFinally ==
  {"test_Types", "test_Plugin_bin_info", "test_linear_disassembly",
   "test_data_renderer", "test_low_il_stack", "test_med_il_stack",
   "test_events", "test_possiblevalueset_parse", "test_expression_parse",
   "test_verify_BNDB_round_trip", "test_verify_persistent_undo",
   "test_memory_leaks", "test_univeral_loader", "test_user_informed_dataflow",
   "test_possiblevalueset_ser_and_deser", "test_binaryview_callbacks",
   "test_struct_type_leakage"}

\* release as the last statement before the return:
\*     file_name = self.unpackage_file(f)
\*     if not os.path.exists(file_name): return ...
\*     with <open the view> as bv: ...
\*     self.delete_package(f)
\*     return ...
TailRelease ==
  {"test_deprecated_BinaryViewType", "test_type_xref", "test_variable_xref",
   "test_search", "test_auto_create_struct", "test_hlil_arrays",
   "test_load_old_database"}

\* of these, the ones whose with block starts: if bv is None: return retinfo
NoneReturns ==
  {"test_type_xref", "test_variable_xref", "test_search",
   "test_auto_create_struct", "test_hlil_arrays"}

\* engine calls between unpackage_file and the try
SetupBeforeTry == {"test_univeral_loader"}

TestMethods == TryFinally \cup TailRelease

\* the sample a method unpackages
Fixture(m) ==
  CASE m \in {"test_low_il_stack", "test_med_il_stack"} -> "jumptable_reordered"
    [] m \in {"test_type_xref", "test_variable_xref", "test_search"} -> "type_xref.bndb"
    [] m = "test_deprecated_BinaryViewType" -> "fat_macho_9arch.bndb"
    [] m = "test_univeral_loader" -> "fat_macho_9arch"
    [] m = "test_auto_create_struct" -> "auto_create_members.bndb"
    [] m = "test_hlil_arrays" -> "array_test.bndb"
    [] m = "test_load_old_database" -> "binja_v1.2.1921_bin_ls.bndb"
    [] m = "test_struct_type_leakage" -> "basic_struct"
    [] OTHER -> "helloworld"

\* test_possiblevalueset_ser_and_deser runs its helper, which unpackages and
\* releases the sample, once per assert
HelperCalls == 5
Rounds(m) == IF m = "test_possiblevalueset_ser_and_deser" THEN HelperCalls ELSE 1

\* os.path.exists(file_name), file_name being the relative form of the
\* artifact path
Exists(fs, filename) == ArtifactPath(filename) \in fs

\* what entering the with statement binds to bv
ViewOutcomes == {"None", "view"}
\* how a block of engine calls ends
BlockExits == {"return", "raise"}

Logged(op, status) == Append(tmLog, [op |-> op, status |-> status])

InitTestMethods ==
  /\ tmMethod \in TestMethods
  /\ tmFiles \in SUBSET {ArtifactPath(Fixture(tmMethod)), ZipPath(Fixture(tmMethod))}
  /\ tmZipContent \in [{Fixture(tmMethod)} -> ZipKinds]
  /\ tmLog = <<>>
  /\ tmPc = "call"
  /\ tmExit = "none"
  /\ tmRound = 1
  /\ TmRestIdle

\* file_name = self.unpackage_file(f)
TmUnpackage ==
  /\ tmPc = "call"
  /\ LET r == unpackage_file(tmFiles, tmZipContent, Fixture(tmMethod))
     IN /\ tmFiles' = r.files
        /\ tmLog' = Logged("unpackage_file", r.status)
        /\ tmPc' = IF r.status # "returned" THEN "raised"
                   ELSE IF tmMethod \in TailRelease THEN "guard"
                   ELSE IF tmMethod \in SetupBeforeTry THEN "setup"
                   ELSE "try"
  /\ UNCHANGED <<tmMethod, tmZipContent, tmExit, tmRound, tmRest>>

\* the statements of test_univeral_loader before its try
TmSetup ==
  /\ tmPc = "setup"
  /\ \E exit \in BlockExits : tmPc' = IF exit = "raise" THEN "raised" ELSE "try"
  /\ UNCHANGED <<tmMethod, tmFiles, tmZipContent, tmLog, tmExit, tmRound, tmRest>>

\* the body of the try: it returns or raises, and the finally clause runs
TmTryBody ==
  /\ tmPc = "try"
  /\ \E exit \in BlockExits : tmExit' = exit
  /\ tmPc' = "finally"
  /\ UNCHANGED <<tmMethod, tmFiles, tmZipContent, tmLog, tmRound, tmRest>>

\* finally: self.delete_package(f), then what the try was doing goes on
TmFinally ==
  /\ tmPc = "finally"
  /\ LET r == delete_package(tmFiles, Fixture(tmMethod))
         more == r.status = "returned" /\ tmExit = "return"
                   /\ tmRound < Rounds(tmMethod)
     IN /\ tmFiles' = r.files
        /\ tmLog' = Logged("delete_package", r.status)
        /\ tmRound' = IF more THEN tmRound + 1 ELSE tmRound
        /\ tmPc' = IF r.status # "returned" \/ tmExit = "raise" THEN "raised"
                   ELSE IF more THEN "call"
                   ELSE "returned"
  /\ tmExit' = "none"
  /\ UNCHANGED <<tmMethod, tmZipContent, tmRest>>

\* if not os.path.exists(file_name): return
TmGuard ==
  /\ tmPc = "guard"
  /\ tmPc' = IF Exists(tmFiles, Fixture(tmMethod)) THEN "with" ELSE "returned"
  /\ UNCHANGED <<tmMethod, tmFiles, tmZipContent, tmLog, tmExit, tmRound, tmRest>>

\* with <open the view> as bv: [if bv is None: return retinfo]
\* a method without the test goes on to use bv, and None has no attributes
TmOpenView ==
  /\ tmPc = "with"
  /\ \E bv \in ViewOutcomes :
       tmPc' = IF bv = "view" THEN "body"
               ELSE IF tmMethod \in NoneReturns THEN "returned"
               ELSE "raised"
  /\ UNCHANGED <<tmMethod, tmFiles, tmZipContent, tmLog, tmExit, tmRound, tmRest>>

\* the rest of the with block
TmWithBody ==
  /\ tmPc = "body"
  /\ \E exit \in BlockExits : tmPc' = IF exit = "raise" THEN "raised" ELSE "release"
  /\ UNCHANGED <<tmMethod, tmFiles, tmZipContent, tmLog, tmExit, tmRound, tmRest>>

\* self.delete_package(f); return ...
TmRelease ==
  /\ tmPc = "release"
  /\ LET r == delete_package(tmFiles, Fixture(tmMethod))
     IN /\ tmFiles' = r.files
        /\ tmLog' = Logged("delete_package", r.status)
        /\ tmPc' = IF r.status = "returned" THEN "returned" ELSE "raised"
  /\ UNCHANGED <<tmMethod, tmZipContent, tmExit, tmRound, tmRest>>

NextTestMethods ==
  \/ TmUnpackage
  \/ TmSetup
  \/ TmTryBody
  \/ TmFinally
  \/ TmGuard
  \/ TmOpenView
  \/ TmWithBody
  \/ TmRelease

SpecTestMethods == InitTestMethods /\ [][NextTestMethods]_vars

\* ------------------------------------------------------------- claim C20
\* every unpackage_file that returned is followed by exactly one
\* delete_package before the next unpackage_file or the end
Paired(log) ==
  \A i \in 1..Len(log) :
    IF log[i].op = "unpackage_file"
    THEN log[i].status = "returned" =>
           i < Len(log) /\ log[i + 1].op = "delete_package"
    ELSE i > 1 /\ log[i - 1].op = "unpackage_file"

\* C20: when a test method that called unpackage_file returns normally, each
\* successful unpackage_file(name) has been followed by exactly one
\* delete_package(name), on every path including the early returns, and no
\* materialized artifact is left behind.
C20_ReleasedOnReturn ==
  tmPc = "returned" =>
    /\ Paired(tmLog)
    /\ ArtifactPath(Fixture(tmMethod)) \notin tmFiles

\* ------------------------------------------------------------- claim C21
\* C21: when a test method that called unpackage_file exits by an exception
\* raised after the sample was materialized, delete_package has been called
\* exactly once for it and no artifact it materialized is left in the store.
C21_ReleasedOnRaise ==
  tmPc = "raised" =>
    /\ Paired(tmLog)
    /\ ArtifactPath(Fixture(tmMethod)) \notin tmFiles

\* ------------------------------------- what the VerifyBuilder tests return
BoolVal(b) == [kind |-> "bool", val |-> b]

\* str(b) of a bool
BoolStr(b) == IF b THEN <<"T", "r", "u", "e">> ELSE <<"F", "a", "l", "s", "e">>

\* bool(v): the truth value of a Python value
Truthy(v) ==
  CASE v.kind = "bool" -> v.val
    [] v.kind \in {"str", "list"} -> v.val # <<>>
    [] v.kind = "none" -> FALSE
    [] OTHER -> TRUE

Raised(error) == [status |-> error, val |-> <<>>]

\* the test_ methods of VerifyBuilder
VerifyMethods ==
  {"test_possiblevalueset_parse", "test_expression_parse",
   "test_verify_BNDB_round_trip", "test_verify_persistent_undo",
   "test_memory_leaks", "test_univeral_loader", "test_user_informed_dataflow",
   "test_possiblevalueset_ser_and_deser", "test_binaryview_callbacks",
   "test_load_old_database", "test_struct_type_leakage"}

\* What one run of a method observes of the engine, three truth values:
\*  test_verify_BNDB_round_trip, test_verify_persistent_undo and
\*  test_univeral_loader: 1 functions == bndb_functions,
\*      2 comments == bndb_comments; for test_univeral_loader also
\*      3 the views have the expected view_type, arch, start and load settings
\*  test_memory_leaks: 1 no object count grew
\*  test_binaryview_callbacks: 1 finalized, 2 finalized_2, 3 analysis_completion
\*  test_load_old_database: 1 bv.file.snapshot_data_applied_without_error,
\*      2 bv is None
\*  the other methods: 1 every comparison they assert holds
Observations == 1..3

\* the two lists compared after the database was written and read back
SameAfterReopen(o) == o[1] /\ o[2]

\* an assert statement of the method fails
AssertFails(m, o) ==
  CASE m = "test_univeral_loader" ->
         \/ ~o[3]
         \/ ~Truthy(List(<<Str(BoolStr(SameAfterReopen(o)))>>))
    [] m \in {"test_possiblevalueset_parse", "test_expression_parse",
              "test_user_informed_dataflow",
              "test_possiblevalueset_ser_and_deser"} -> ~o[1]
    [] OTHER -> FALSE

\* the value of the return statement reached when nothing raises
ReturnValue(m, o) ==
  CASE m = "test_verify_BNDB_round_trip" -> List(<<Str(BoolStr(SameAfterReopen(o)))>>)
    [] m = "test_verify_persistent_undo" -> BoolVal(SameAfterReopen(o))
    [] m = "test_memory_leaks" -> BoolVal(o[1])
    [] m = "test_binaryview_callbacks" -> BoolVal(o[1] /\ o[2] /\ o[3])
    [] m = "test_load_old_database" -> IF o[1] THEN BoolVal(TRUE) ELSE NoneVal
    [] m = "test_struct_type_leakage" -> NoneVal
    [] OTHER -> BoolVal(TRUE)

\* how one call of the method ends
VerifyOutcome(m, o, engineRaises) ==
  IF engineRaises THEN Raised("EngineError")
  ELSE IF m = "test_load_old_database" /\ o[2] THEN Raised("AttributeError")
  ELSE IF AssertFails(m, o) THEN Raised("AssertionError")
  ELSE Ok(ReturnValue(m, o))

InitVerify ==
  /\ vrMethod \in VerifyMethods
  /\ vrObs \in [Observations -> BOOLEAN]
  /\ vrEngineRaises \in BOOLEAN
  /\ vrOutcome = NoResult
  /\ VrRestIdle

\* getattr(builder, vrMethod)()
VerifyCall ==
  /\ vrOutcome = NoResult
  /\ vrOutcome' = VerifyOutcome(vrMethod, vrObs, vrEngineRaises)
  /\ UNCHANGED <<vrMethod, vrObs, vrEngineRaises, vrRest>>

NextVerify == VerifyCall

SpecVerify == InitVerify /\ [][NextVerify]_vars

\* ------------------------------------------------------------- claim C22
\* C22: a test_ method of VerifyBuilder that returns normally returns a
\* boolean, never a list, a string or None.
C22_ReturnsBoolean ==
  vrOutcome.status = "ok" => vrOutcome.val.kind = "bool"

\* ------------------------------- the engine settings two tests write to
ArchKey == "files.universal.architecturePreference"
SuppressKey == "analysis.database.suppressReanalysis"

\* the engine's settings store: every key has a default, set overwrites the
\* value for the whole process, reset puts the default back
DefaultValue(key) == IF key = ArchKey THEN <<"x86">> ELSE FALSE
SettingsSet(s, key, value) == [s EXCEPT ![key] = value]
SettingsReset(s, key) == [s EXCEPT ![key] = DefaultValue(key)]

\* the values the architecture preference takes in the test, and its default
ArchValues == {<<"x86">>, <<"arm64">>, <<"x86_64", "arm64">>}

\* the Settings() statements inside the try of test_univeral_loader, in
\* order (lines 1448, 1458, 1468, 1478, 1489, 1507, 1517, 1527, 1537, 1549,
\* 1559); "restore" writes save_setting_value
UlStatements ==
  << [op |-> "reset", val |-> <<>>], [op |-> "reset", val |-> <<>>],
     [op |-> "set", val |-> <<"arm64">>], [op |-> "set", val |-> <<"x86_64", "arm64">>],
     [op |-> "set", val |-> <<"arm64">>],
     [op |-> "reset", val |-> <<>>], [op |-> "reset", val |-> <<>>],
     [op |-> "set", val |-> <<"x86">>], [op |-> "set", val |-> <<"x86_64", "arm64">>],
     [op |-> "set", val |-> <<"x86_64", "arm64">>],
     [op |-> "restore", val |-> <<>>] >>

Apply(s, stmt, saved) ==
  CASE stmt.op = "reset" -> SettingsReset(s, ArchKey)
    [] stmt.op = "set" -> SettingsSet(s, ArchKey, stmt.val)
    [] OTHER -> SettingsSet(s, ArchKey, saved)

InitSettings ==
  /\ stMethod \in {"test_univeral_loader", "test_load_old_database"}
  /\ \E arch \in ArchValues, suppress \in BOOLEAN :
       stSettings = (ArchKey :> arch) @@ (SuppressKey :> suppress)
  /\ stBefore = stSettings
  /\ stSaved = <<>>
  /\ stPc = IF stMethod = "test_univeral_loader" THEN "save" ELSE "set"
  /\ stIdx = 1
  /\ stExit = "none"
  /\ StRestIdle

\* save_setting_value = binja.Settings().get_string_list(ArchKey)
StSave ==
  /\ stPc = "save"
  /\ stSaved' = stSettings[ArchKey]
  /\ stPc' = "reset"
  /\ UNCHANGED <<stMethod, stSettings, stBefore, stIdx, stExit, stRest>>

\* binja.Settings().reset(ArchKey), before the try is entered
StResetBeforeTry ==
  /\ stPc = "reset"
  /\ \E exit \in BlockExits :
       IF exit = "raise"
       THEN stPc' = "raised" /\ stSettings' = stSettings
       ELSE stPc' = "try" /\ stSettings' = SettingsReset(stSettings, ArchKey)
  /\ UNCHANGED <<stMethod, stBefore, stSaved, stIdx, stExit, stRest>>

\* inside the try: the engine calls and asserts up to the next Settings()
\* statement, then that statement; after the last one, return True
StTryStep ==
  /\ stPc = "try"
  /\ \E exit \in BlockExits :
       IF exit = "raise"
       THEN /\ stPc' = "finally" /\ stExit' = "raise"
            /\ UNCHANGED <<stSettings, stIdx>>
       ELSE /\ stSettings' = Apply(stSettings, UlStatements[stIdx], stSaved)
            /\ IF stIdx = Len(UlStatements)
               THEN stPc' = "finally" /\ stExit' = "return" /\ stIdx' = stIdx
               ELSE stPc' = "try" /\ stExit' = stExit /\ stIdx' = stIdx + 1
  /\ UNCHANGED <<stMethod, stBefore, stSaved, stRest>>

\* finally: binja.Settings().set_string_list(ArchKey, save_setting_value)
StFinally ==
  /\ stPc = "finally"
  /\ stSettings' = SettingsSet(stSettings, ArchKey, stSaved)
  /\ stPc' = IF stExit = "raise" THEN "raised" ELSE "returned"
  /\ UNCHANGED <<stMethod, stBefore, stSaved, stIdx, stExit, stRest>>

\* test_load_old_database: binja.Settings().set_bool(SuppressKey, True)
StSetBool ==
  /\ stPc = "set"
  /\ stSettings' = SettingsSet(stSettings, SuppressKey, TRUE)
  /\ stPc' = "with"
  /\ UNCHANGED <<stMethod, stBefore, stSaved, stIdx, stExit, stRest>>

\* the with block of test_load_old_database: it completes or raises
StWith ==
  /\ stPc = "with"
  /\ \E exit \in BlockExits : stPc' = IF exit = "raise" THEN "raised" ELSE "resetAfter"
  /\ UNCHANGED <<stMethod, stSettings, stBefore, stSaved, stIdx, stExit, stRest>>

\* binja.Settings().reset(SuppressKey); delete_package; return ret
StResetAfter ==
  /\ stPc = "resetAfter"
  /\ stSettings' = SettingsReset(stSettings, SuppressKey)
  /\ stPc' = "returned"
  /\ UNCHANGED <<stMethod, stBefore, stSaved, stIdx, stExit, stRest>>

NextSettings ==
  \/ StSave
  \/ StResetBeforeTry
  \/ StTryStep
  \/ StFinally
  \/ StSetBool
  \/ StWith
  \/ StResetAfter

SpecSettings == InitSettings /\ [][NextSettings]_vars

\* ------------------------------------------------------------- claim C23
\* C23: when test_univeral_loader or test_load_old_database exits, by a
\* return or by an exception, every engine setting holds the value it had
\* before the test.
C23_SettingsRestored ==
  stPc \in {"returned", "raised"} => stSettings = stBefore

\* ------------------- the engine's edit groups, as the tests rely on them
\* A view holds the current contents and the committed edit groups: each
\* commit keeps the contents it replaced, undo puts the last one back and
\* redo takes that back.  A database holds the contents and the groups.
Commit(e, contents) ==
  [cur |-> contents, undo |-> Append(e.undo, e.cur), redo |-> <<>>]
Undo(e) ==
  IF e.undo = <<>> THEN e
  ELSE [cur |-> e.undo[Len(e.undo)],
        undo |-> SubSeq(e.undo, 1, Len(e.undo) - 1),
        redo |-> Append(e.redo, e.cur)]
Redo(e) ==
  IF e.redo = <<>> THEN e
  ELSE [cur |-> e.redo[Len(e.redo)],
        undo |-> Append(e.undo, e.cur),
        redo |-> SubSeq(e.redo, 1, Len(e.redo) - 1)]
\* opening a database that kept the last `kept` groups
Reopen(db, kept) ==
  LET n == Len(db.undo)
      k == IF kept < n THEN kept ELSE n
  IN [cur |-> db.cur, undo |-> SubSeq(db.undo, n - k + 1, n), redo |-> <<>>]

\* the contents of a view: the starts of its functions, the comment at the
\* start of the sample's first function, whether the user variable value of
\* test_user_informed_dataflow is set
Addrs == 1..MaxAddr
Comments == {"", "Function start", "Function start!"}
MinOf(S) == CHOOSE x \in S : \A y \in S : x <= y

\* one edit of the tests
Edit(c, edit, start) ==
  CASE edit = "commentA" -> [c EXCEPT !.comment = "Function start"]
    [] edit = "commentB" -> [c EXCEPT !.comment = "Function start!"]
    [] edit = "createFunction" -> [c EXCEPT !.functions = @ \cup {start}]
    [] OTHER -> [c EXCEPT !.varSet = TRUE]

\* self.get_functions(bv), self.get_comments(bv)
GetFunctions(c) == c.functions
GetComments(c) == IF MinOf(c.functions) = c.first THEN c.comment ELSE ""

\* what the asserts of test_user_informed_dataflow look at: the value of the
\* if condition, the value of r3 after it, and whether HLIL has an if
AppliedAnalysis == [cond |-> "true", r3 |-> "0", hlilIf |-> FALSE]
OriginalAnalysis == [cond |-> "undetermined", r3 |-> "entry", hlilIf |-> TRUE]
AnalysisValues ==
  {OriginalAnalysis, AppliedAnalysis,
   [cond |-> "undetermined", r3 |-> "entry", hlilIf |-> FALSE]}
\* with the variable set the branch is decided; without it the analysis is
\* the sample's own
Analysis(c, base) == IF c.varSet THEN AppliedAnalysis ELSE base

Step(op, arg) == [op |-> op, arg |-> arg]

\* the engine calls of test_verify_persistent_undo, in order
PersistentUndoScript ==
  << Step("commit", "commentA"), Step("observe", ""),
     Step("commit", "commentB"), Step("commit", "createFunction"),
     Step("save", ""), Step("reopen", ""),
     Step("undo", ""), Step("undo", ""),
     Step("observe", ""), Step("return", "") >>

\* the script without its last block of asserts
UserInformedScriptUnchecked ==
  << Step("commit", "setVarValue"), Step("assert", "applied"),
     Step("undo", ""), Step("assert", "original"),
     Step("redo", ""), Step("assert", "applied"),
     Step("save", ""), Step("reopen", ""), Step("assert", "applied"),
     Step("undo", ""),
     Step("return", "") >>

\* the engine calls and assert blocks of test_user_informed_dataflow
UserInformedScript ==
  << Step("commit", "setVarValue"), Step("assert", "applied"),
     Step("undo", ""), Step("assert", "original"),
     Step("redo", ""), Step("assert", "applied"),
     Step("save", ""), Step("reopen", ""), Step("assert", "applied"),
     Step("undo", ""), Step("assert", "original"),
     Step("return", "") >>

Script(m) ==
  IF m = "test_verify_persistent_undo" THEN PersistentUndoScript
  ELSE UserInformedScript

\* the number of groups a method commits
Commits(m) == Cardinality({i \in 1..Len(Script(m)) : Script(m)[i].op = "commit"})

\* return functions only
PersistentUndoResultFunctionsOnly(seen) ==
  BoolVal(seen[1].functions = seen[2].functions)

\* return functions == bndb_functions and comments == bndb_comments
PersistentUndoResult(seen) ==
  BoolVal(seen[1].functions = seen[2].functions
          /\ seen[1].comments = seen[2].comments)

Observed(c, base) ==
  [functions |-> GetFunctions(c), comments |-> GetComments(c),
   analysis |-> Analysis(c, base)]

InitEngineTests ==
  /\ enMethod \in {"test_verify_persistent_undo", "test_user_informed_dataflow"}
  /\ enStart \in Addrs
  /\ enBase \in AnalysisValues
  /\ enKept \in 0..Commits(enMethod)
  /\ \E fs \in SUBSET Addrs \ {{}}, cm \in Comments :
       enEngine = [cur |-> [functions |-> fs, first |-> MinOf(fs),
                            comment |-> cm, varSet |-> FALSE],
                   undo |-> <<>>, redo |-> <<>>]
  /\ enDb = <<>>
  /\ enSeen = <<>>
  /\ enPc = 1
  /\ enResult = NoResult
  /\ EnRestIdle

EnAt(op) ==
  /\ enResult = NoResult
  /\ Script(enMethod)[enPc].op = op
EnNext == enPc' = enPc + 1

\* bv.begin_undo_actions(); <edit>; bv.commit_undo_actions()
EnCommit ==
  /\ EnAt("commit")
  /\ enEngine' = Commit(enEngine, Edit(enEngine.cur, Script(enMethod)[enPc].arg, enStart))
  /\ EnNext
  /\ UNCHANGED <<enMethod, enStart, enBase, enKept, enDb, enSeen, enResult, enRest>>

\* comments = self.get_comments(bv); functions = self.get_functions(bv)
EnObserve ==
  /\ EnAt("observe")
  /\ enSeen' = Append(enSeen, Observed(enEngine.cur, enBase))
  /\ EnNext
  /\ UNCHANGED <<enMethod, enStart, enBase, enKept, enEngine, enDb, enResult, enRest>>

\* bv.undo()
EnUndo ==
  /\ EnAt("undo")
  /\ enEngine' = Undo(enEngine)
  /\ enSeen' = Append(enSeen, Observed(enEngine'.cur, enBase))
  /\ EnNext
  /\ UNCHANGED <<enMethod, enStart, enBase, enKept, enDb, enResult, enRest>>

\* bv.redo()
EnRedo ==
  /\ EnAt("redo")
  /\ enEngine' = Redo(enEngine)
  /\ enSeen' = Append(enSeen, Observed(enEngine'.cur, enBase))
  /\ EnNext
  /\ UNCHANGED <<enMethod, enStart, enBase, enKept, enDb, enResult, enRest>>

\* bv.create_database(temp_name)
EnSave ==
  /\ EnAt("save")
  /\ enDb' = enEngine
  /\ EnNext
  /\ UNCHANGED <<enMethod, enStart, enBase, enKept, enEngine, enSeen, enResult, enRest>>

\* opening the database written before
EnReopen ==
  /\ EnAt("reopen")
  /\ enEngine' = Reopen(enDb, enKept)
  /\ enSeen' = Append(enSeen, Observed(enEngine'.cur, enBase))
  /\ EnNext
  /\ UNCHANGED <<enMethod, enStart, enBase, enKept, enDb, enResult, enRest>>

\* a block of asserts of test_user_informed_dataflow
EnAssert ==
  /\ EnAt("assert")
  /\ LET expected == IF Script(enMethod)[enPc].arg = "applied"
                     THEN AppliedAnalysis ELSE OriginalAnalysis
     IN IF Analysis(enEngine.cur, enBase) = expected
        THEN EnNext /\ enResult' = enResult
        ELSE enPc' = enPc /\ enResult' = Raised("AssertionError")
  /\ UNCHANGED <<enMethod, enStart, enBase, enKept, enEngine, enDb, enSeen, enRest>>

\* the return statement
EnReturn ==
  /\ EnAt("return")
  /\ enResult' = IF enMethod = "test_verify_persistent_undo"
                 THEN Ok(PersistentUndoResult(
                        <<[functions |-> enSeen[1].functions, comments |-> enSeen[1].comments],
                          [functions |-> enSeen[Len(enSeen)].functions,
                           comments |-> enSeen[Len(enSeen)].comments]>>))
                 ELSE Ok(BoolVal(TRUE))
  /\ UNCHANGED <<enMethod, enStart, enBase, enKept, enEngine, enDb, enSeen, enPc, enRest>>

NextEngineTests ==
  \/ EnCommit
  \/ EnObserve
  \/ EnUndo
  \/ EnRedo
  \/ EnSave
  \/ EnReopen
  \/ EnAssert
  \/ EnReturn

SpecEngineTests == InitEngineTests /\ [][NextEngineTests]_vars

\* ------------------------------------------------------ claims C24, C25
EnDone(m) == enMethod = m /\ enResult # NoResult
\* the two undo() calls after the reopen gave back what was recorded after
\* the first group
Restored ==
  /\ enSeen[Len(enSeen)].functions = enSeen[1].functions
  /\ enSeen[Len(enSeen)].comments = enSeen[1].comments

FinalizedCallbacks == {"finalized", "finalized_2"}
CompletionCallbacks == {"analysis_completion"}

\* the closures take the flag as it was when they were defined
StoredKeysFlagCopied(event, registered, flag) == event \cap registered

\* the keys stored on a view by the callbacks of one event:
\*     if callback_should_run: bv.store_metadata(key, 'yes')
StoredKeys(event, registered, flag) ==
  IF flag THEN event \cap registered ELSE {}

\* where the test is when something happens to a view
Phase == IF cbPc = "call" THEN "before"
         ELSE IF cbPc \in {"returned", "raised"} THEN "after"
         ELSE "during"

\* the metadata of a view: the keys stored, each with the phase it was
\* stored in
Stamp(keys) == {<<k, Phase>> : k \in keys}
NewView == [analysed |-> FALSE,
            meta |-> Stamp(StoredKeys(FinalizedCallbacks, cbRegistered, cbFlag))]
Analysed(v) ==
  [analysed |-> TRUE,
   meta |-> v.meta \cup Stamp(StoredKeys(CompletionCallbacks, cbRegistered, cbFlag))]

CbSample == "helloworld"

InitCallbacks ==
  /\ cbPc = "call"
  /\ cbFlag = FALSE
  /\ cbRegistered = {}
  /\ cbViews = <<>>
  /\ cbFiles \in SUBSET {ArtifactPath(CbSample), ZipPath(CbSample)}
  /\ cbZipContent \in [{CbSample} -> ZipKinds]
  /\ cbExit = "none"
  /\ CbRestIdle

\* some view of the process is finalized
ViewFinalized ==
  /\ Len(cbViews) < MaxViews
  /\ cbViews' = Append(cbViews, NewView)
  /\ UNCHANGED <<cbPc, cbFlag, cbRegistered, cbFiles, cbZipContent, cbExit, cbRest>>

\* the initial analysis of some view completes
ViewAnalysed ==
  /\ \E i \in 1..Len(cbViews) :
       /\ ~cbViews[i].analysed
       /\ cbViews' = [cbViews EXCEPT ![i] = Analysed(cbViews[i])]
  /\ UNCHANGED <<cbPc, cbFlag, cbRegistered, cbFiles, cbZipContent, cbExit, cbRest>>

\* file_name = self.unpackage_file("helloworld"); callback_should_run = True
CbUnpackage ==
  /\ cbPc = "call"
  /\ LET r == unpackage_file(cbFiles, cbZipContent, CbSample)
     IN /\ cbFiles' = r.files
        /\ IF r.status = "returned"
           THEN cbPc' = "register" /\ cbFlag' = TRUE
           ELSE cbPc' = "raised" /\ cbFlag' = cbFlag
  /\ UNCHANGED <<cbRegistered, cbViews, cbZipContent, cbExit, cbRest>>

\* the three add_binaryview_..._event calls
CbRegister ==
  /\ cbPc = "register"
  /\ cbRegistered' = FinalizedCallbacks \cup CompletionCallbacks
  /\ cbPc' = "try"
  /\ UNCHANGED <<cbFlag, cbViews, cbFiles, cbZipContent, cbExit, cbRest>>

\* with binja.open_view(file_name) as bv: the view of the test is finalized
\* and analysed, unless opening it raises
CbOpenView ==
  /\ cbPc = "try"
  /\ \E exit \in BlockExits :
       IF exit = "raise"
       THEN cbPc' = "finally" /\ cbExit' = "raise" /\ cbViews' = cbViews
       ELSE cbPc' = "query" /\ cbExit' = cbExit
            /\ cbViews' = Append(cbViews, Analysed(NewView))
  /\ UNCHANGED <<cbFlag, cbRegistered, cbFiles, cbZipContent, cbRest>>

\* the three query_metadata calls and the return
CbQuery ==
  /\ cbPc = "query"
  /\ \E exit \in BlockExits : cbExit' = exit
  /\ cbPc' = "finally"
  /\ UNCHANGED <<cbFlag, cbRegistered, cbViews, cbFiles, cbZipContent, cbRest>>

\* finally: self.delete_package("helloworld"); callback_should_run = False
CbFinally ==
  /\ cbPc = "finally"
  /\ LET r == delete_package(cbFiles, CbSample)
     IN /\ cbFiles' = r.files
        /\ cbFlag' = IF r.status = "returned" THEN FALSE ELSE cbFlag
        /\ cbPc' = IF r.status = "returned" /\ cbExit = "return"
                   THEN "returned" ELSE "raised"
  /\ UNCHANGED <<cbRegistered, cbViews, cbZipContent, cbExit, cbRest>>

NextCallbacks ==
  \/ ViewFinalized
  \/ ViewAnalysed
  \/ CbUnpackage
  \/ CbRegister
  \/ CbOpenView
  \/ CbQuery
  \/ CbFinally

SpecCallbacks == InitCallbacks /\ [][NextCallbacks]_vars

\* ------------------------------------------------------------- claim C26
\* C26: the callbacks registered by test_binaryview_callbacks store metadata
\* only while the test is running: nothing is stored on a view that is
\* finalized or analysed after the test has exited, by return or exception.
C26_CallbacksQuietAfterExit ==
  \A i \in 1..Len(cbViews) : \A s \in cbViews[i].meta : s[2] = "during"

\* a view finalized and analysed after the exit of a test that had stored
\* metadata on its own view
C26_Witness ==
  /\ cbPc \in {"returned", "raised"}
  /\ cbRegistered # {}
  /\ \E i \in 1..Len(cbViews) : Cardinality(cbViews[i].meta) = 3
  /\ cbViews[Len(cbViews)].analysed
  /\ cbViews[Len(cbViews)].meta = {}

\* ------------------------------------------------------------- claim C27
\* C27: for any fixture name, when unpackage_file(name) succeeded and
\* delete_package(name) followed, a further unpackage_file(name) succeeds
\* again, also when the first call found the bare artifact present.
C27_RematerializeSucceeds ==
  \A i \in 1..Len(fxLog) :
    (/\ i + 2 <= Len(fxLog)
     /\ fxLog[i].op = "unpackage_file" /\ fxLog[i].status = "returned"
     /\ fxLog[i + 1].op = "delete_package"
     /\ fxLog[i + 1].filename = fxLog[i].filename
     /\ fxLog[i + 2].op = "unpackage_file"
     /\ fxLog[i + 2].filename = fxLog[i].filename)
      => fxLog[i + 2].status = "returned"

\* ------------------------------------------------------------- claim C28
\* C28: test_univeral_loader fails whenever the functions or comments read
\* back from a reopened temporary database differ from the ones recorded
\* before the database was saved.
C28_DetectsRoundTripLoss ==
  (/\ vrMethod = "test_univeral_loader"
   /\ vrOutcome # NoResult
   /\ ~SameAfterReopen(vrObs))
    => vrOutcome.status # "ok"

\* ------------------------------------------------------------ test_events
\* The lines the callbacks append to results, shortened: a data_written line
\* as Python 2 formats it ("w 0x4L"), a data_inserted line ("i 0x4") and a
\* type_defined line ("t f").
Notifications ==
  { <<"w", " ", "0", "x", "4", "L">>, <<"i", " ", "0", "x", "4">>, <<"t", " ", "f">> }

StrList(l) == [k \in 1..Len(l) |-> Str(l[k])]

\* return fixOutput(results)
TestEventsReturnUnsorted(results) == fixOutput(StrList(results))

\* return fixOutput(sorted(results))
TestEventsReturn(results) == fixOutput(StrList(Sorted(results)))

InitEvents ==
  /\ evAll \in SeqsUpTo(Notifications, MaxEvents)
  /\ evLeft = 1..Len(evAll)
  /\ evResults = <<>>
  /\ evReturned = NoResult
  /\ EvRestIdle

\* the engine delivers one of the notifications still due: the callback
\* appends its line to results
EvDeliver ==
  /\ evReturned = NoResult
  /\ \E i \in evLeft :
       /\ evResults' = Append(evResults, evAll[i])
       /\ evLeft' = evLeft \ {i}
  /\ UNCHANGED <<evAll, evReturned, evRest>>

\* bv.unregister_notification(test); return fixOutput(sorted(results))
EvReturn ==
  /\ evReturned = NoResult
  /\ evLeft = {}
  /\ evReturned' = TestEventsReturn(evResults)
  /\ UNCHANGED <<evAll, evLeft, evResults, evRest>>

NextEvents == EvDeliver \/ EvReturn

SpecEvents == InitEvents /\ [][NextEvents]_vars

\* ------------------------------------------------------------- claim C29
\* C29: the list test_events returns depends only on which notifications
\* were delivered, each how often, not on the order of delivery: every
\* delivery order of the notifications evAll gives the list that the order
\* evAll itself gives.
C29_DeliveryOrderIrrelevant ==
  evReturned # NoResult => evReturned = TestEventsReturn(evAll)

\* notifications delivered in another order than evAll
C29_Witness ==
  /\ evReturned # NoResult
  /\ evResults # evAll
  /\ \E k \in 1..Len(evReturned.val) : evReturned.val[k] = Str(<<"w", " ", "0", "x", "4">>)

\* ----------------------------------- the temporary databases of the tests
\* names next(tempfile._get_candidate_names()) + ".bndb" can give
TempNames == {"tmpa.bndb", "tmpb.bndb"}

\* One round of writing and reading back a temporary database: engine calls
\* and asserts, temp_name = ...; bv.create_database(temp_name), more engine
\* calls and asserts, os.unlink(temp_name).
TempRound == <<"block", "create", "block", "unlink">>

\* what each test does with temporary databases, up to its return
TempScript(m) ==
  CASE m = "test_univeral_loader" ->
         TempRound \o TempRound \o <<"block", "return">>
    [] m = "test_possiblevalueset_ser_and_deser" ->
         TempRound \o TempRound \o TempRound \o TempRound \o TempRound
           \o <<"return">>
    [] OTHER -> TempRound \o <<"return">>

TempMethods ==
  {"test_verify_BNDB_round_trip", "test_verify_persistent_undo",
   "test_univeral_loader", "test_user_informed_dataflow",
   "test_possiblevalueset_ser_and_deser"}

InitTemp ==
  /\ tpMethod \in TempMethods
  /\ tpPc = 1
  /\ tpName = ""
  /\ tpTemp = {}
  /\ tpExit = "running"
  /\ TpRestIdle

TpAt(op) == tpExit = "running" /\ TempScript(tpMethod)[tpPc] = op

\* engine calls and asserts: they pass, or one raises and the test is left
\* (its finally clause releases the sample, nothing else)
TpBlock ==
  /\ TpAt("block")
  /\ \E exit \in BlockExits :
       IF exit = "raise" THEN tpExit' = "raised" /\ tpPc' = tpPc
       ELSE tpExit' = tpExit /\ tpPc' = tpPc + 1
  /\ UNCHANGED <<tpMethod, tpName, tpTemp, tpRest>>

\* temp_name = next(...) + ".bndb"; bv.create_database(temp_name)
TpCreate ==
  /\ TpAt("create")
  /\ \E name \in TempNames :
       /\ tpName' = name
       /\ tpTemp' = tpTemp \cup {name}
  /\ tpPc' = tpPc + 1
  /\ UNCHANGED <<tpMethod, tpExit, tpRest>>

\* os.unlink(temp_name)
TpUnlink ==
  /\ TpAt("unlink")
  /\ IF tpName \in tpTemp
     THEN tpTemp' = tpTemp \ {tpName} /\ tpPc' = tpPc + 1 /\ tpExit' = tpExit
     ELSE tpTemp' = tpTemp /\ tpPc' = tpPc /\ tpExit' = "raised"
  /\ UNCHANGED <<tpMethod, tpName, tpRest>>

\* return
TpReturn ==
  /\ TpAt("return")
  /\ tpExit' = "returned"
  /\ UNCHANGED <<tpMethod, tpPc, tpName, tpTemp, tpRest>>

NextTemp == TpBlock \/ TpCreate \/ TpUnlink \/ TpReturn

SpecTemp == InitTemp /\ [][NextTemp]_vars

\* ------------------------------------------------------------- claim C30
\* C30: when a test that wrote a temporary database exits, by return or by
\* a failing engine call or assert, the temporary database is removed.
C30_TempDatabaseRemoved ==
  tpExit \in {"returned", "raised"} => tpTemp = {}
====
